---- MODULE Spec2Model ----
(***************************************************************************)
(* A model of the TypeScript code generation path of the apollo CLI:      *)
(*   packages/arc-apollo-cli/src/generate.ts            (generate)        *)
(*   packages/arc-apollo-codegen-typescript/src/codeGeneration.ts         *)
(*                                  (generateSource, TypescriptAPIGenerator)*)
(* The compiler core (arc-apollo-codegen-core: document loading, the IR   *)
(* builder, typeCaseForSelectionSet, collectAndMergeFields) and the       *)
(* language printer live in other packages; they are modelled from their  *)
(* specification (sections 4.1 - 4.4 and 7).                              *)
(*                                                                         *)
(* Strings that the code concatenates or compares are sequences of tokens: *)
(* Spell("FooVariables") = <<"Foo", "Variables">>.                        *)
(***************************************************************************)
EXTENDS Integers, Sequences, FiniteSets, TLC

\* Total number of selection nodes in the body of the operation's root field.
MaxNodes == 3

Range(s) == { s[i] : i \in 1..Len(s) }

Last(s) == s[Len(s)]

Front(s) == SubSeq(s, 1, Len(s) - 1)

(***************************************************************************)
(* Strings as token sequences.                                            *)
(***************************************************************************)
Spell(name) ==
  IF name = "FooVariables" THEN <<"Foo", "Variables">> ELSE <<name>>

(***************************************************************************)
(* The schema (Schema Type Index): read-only.                             *)
(***************************************************************************)
ObjectTypes == {"Query", "Cat", "Dog", "Bird"}

SchemaTypes == ObjectTypes \cup {"Animal", "Pet", "String"}

PossibleTypesOf(type) ==
  CASE type = "Animal" -> <<"Cat", "Dog", "Bird">>
    [] type = "Pet" -> <<"Cat", "Dog">>
    [] type \in ObjectTypes -> <<type>>
    [] OTHER -> <<>>

FieldType(name) ==
  CASE name \in {"animal", "friend"} -> "Animal"
    [] OTHER -> "String"

\* The possible types of a parent narrowed by a type condition, in the
\* parent's order.
Narrow(possibleTypes, type) ==
  SelectSeq(possibleTypes, LAMBDA t : t \in Range(PossibleTypesOf(type)))

(***************************************************************************)
(* Parsed documents (the typed AST handed in by the parser).              *)
(***************************************************************************)
SourceDirectory == << <<"src">> >>

FieldNode(name, alias, sels) ==
  [kind |-> "Field", name |-> name, alias |-> alias, type |-> "", sels |-> sels]

TypeConditionNode(type, sels) ==
  [kind |-> "TypeCondition", name |-> "", alias |-> "", type |-> type, sels |-> sels]

SpreadNode(fragmentName) ==
  [kind |-> "FragmentSpread", name |-> fragmentName, alias |-> "", type |-> "",
   sels |-> <<>>]

FragmentDef(fragmentName, type, sels) ==
  [fragmentName |-> fragmentName, type |-> type, sels |-> sels,
   filePath |-> [dir |-> SourceDirectory, file |-> <<"fragments", ".", "graphql">>]]

OperationDef(operationName, variables, sels) ==
  [operationName |-> operationName, variables |-> variables, sels |-> sels,
   filePath |-> [dir |-> SourceDirectory, file |-> <<"queries", ".", "graphql">>]]

FragmentF ==
  FragmentDef("F", "Animal",
              <<FieldNode("name", "", <<>>),
                TypeConditionNode("Cat", <<FieldNode("id", "", <<>>)>>)>>)

FragmentG ==
  FragmentDef("G", "Dog", <<SpreadNode("F"), FieldNode("id", "", <<>>)>>)

LeafSelections ==
  { FieldNode("name", "", <<>>), FieldNode("id", "name", <<>>),
    SpreadNode("F"), SpreadNode("G") }

Wrappers ==
  { TypeConditionNode("Cat", <<>>), TypeConditionNode("Pet", <<>>),
    FieldNode("friend", "", <<>>) }

RECURSIVE SelectionSetsOfSize(_)
SelectionsOfSize(n) ==
  (IF n = 1 THEN LeafSelections ELSE {})
    \cup (IF n >= 2
          THEN { [w EXCEPT !.sels = body] :
                   w \in Wrappers, body \in SelectionSetsOfSize(n - 1) }
          ELSE {})

\* Every selection list with exactly n selection nodes.
SelectionSetsOfSize(n) ==
  IF n = 0 THEN {<<>>}
  ELSE UNION { { <<s>> \o rest :
                   s \in SelectionsOfSize(k), rest \in SelectionSetsOfSize(n - k) } :
               k \in 1..n }

RECURSIVE SpreadNames(_)
SpreadNames(sels) ==
  IF sels = <<>> THEN {}
  ELSE (IF Head(sels).kind = "FragmentSpread" THEN {Head(sels).name} ELSE {})
         \cup SpreadNames(Head(sels).sels) \cup SpreadNames(Tail(sels))

\* The fragment definitions a document needs for its spreads.
FragmentsFor(sels) ==
  IF "G" \in SpreadNames(sels) THEN <<FragmentF, FragmentG>>
  ELSE IF "F" \in SpreadNames(sels) THEN <<FragmentF>>
  ELSE <<>>

QueryOver(body) ==
  [operations |-> <<OperationDef("Foo", <<>>, <<FieldNode("animal", "", body)>>)>>,
   fragments |-> FragmentsFor(body)]

GeneratedDocuments ==
  { QueryOver(body) : body \in UNION { SelectionSetsOfSize(n) : n \in 1..MaxNodes } }

FragmentQ ==
  FragmentDef("Q", "Query", <<FieldNode("animal", "", <<FieldNode("id", "", <<>>)>>)>>)

\* Larger documents: three variants under one field, a polymorphic field
\* inside a variant of a polymorphic field, a fragment reached twice, a type
\* condition and a fragment spread in the root selection set.
ScenarioDocuments ==
  { [operations |->
       <<OperationDef("Foo", <<>>,
           <<TypeConditionNode("Query",
               <<FieldNode("animal", "", <<FieldNode("name", "", <<>>)>>)>>),
             FieldNode("animal", "pet", <<FieldNode("id", "", <<>>)>>)>>)>>,
     fragments |-> <<>>],
    [operations |->
       <<OperationDef("Foo", <<>>,
           <<SpreadNode("Q"),
             FieldNode("animal", "pet", <<FieldNode("name", "", <<>>)>>)>>)>>,
     fragments |-> <<FragmentQ>>],
    QueryOver(<<TypeConditionNode("Cat", <<FieldNode("name", "", <<>>)>>),
                TypeConditionNode("Pet",
                  <<FieldNode("friend", "", <<FieldNode("name", "", <<>>)>>)>>)>>),
    QueryOver(<<TypeConditionNode("Cat",
                  <<FieldNode("friend", "",
                      <<TypeConditionNode("Cat", <<FieldNode("name", "", <<>>)>>)>>)>>)>>),
    QueryOver(<<SpreadNode("F"), SpreadNode("G"),
                FieldNode("friend", "", <<SpreadNode("G"), SpreadNode("F")>>),
                FieldNode("friend", "", <<FieldNode("id", "", <<>>)>>)>>) }

(***************************************************************************)
(* Document Merger and IR Builder.                                        *)
(***************************************************************************)
NoError == "none"

NoSelectionSet == [parentType |-> "", possibleTypes |-> <<>>, selections |-> <<>>]

\* Two fragments of the document set share a name.
hasDuplicateFragmentName(fragments) ==
  \E i, j \in 1..Len(fragments) :
    i < j /\ fragments[i].fragmentName = fragments[j].fragmentName

loadAndMergeQueryDocuments(document) ==
  IF hasDuplicateFragmentName(document.fragments)
  THEN [error |-> "DuplicateFragmentName", document |-> document]
  ELSE [error |-> NoError, document |-> document]

hasFragment(fragments, name) ==
  \E i \in 1..Len(fragments) : fragments[i].fragmentName = name

fragmentNamed(fragments, name) ==
  fragments[CHOOSE i \in 1..Len(fragments) : fragments[i].fragmentName = name]

\* The first error met when resolving a selection list against the schema,
\* in document order; possibleTypes are those of the enclosing selection set.
RECURSIVE selectionError(_, _, _)
selectionError(sels, possibleTypes, fragments) ==
  IF sels = <<>> THEN NoError
  ELSE LET s == Head(sels)
           here ==
             CASE s.kind = "Field" ->
                    IF s.sels = <<>> THEN NoError
                    ELSE selectionError(s.sels, PossibleTypesOf(FieldType(s.name)),
                                        fragments)
               [] s.kind = "TypeCondition" ->
                    IF s.type \notin SchemaTypes THEN "UnknownType"
                    ELSE IF Narrow(possibleTypes, s.type) = <<>>
                    THEN "InvalidTypeCondition"
                    ELSE selectionError(s.sels, Narrow(possibleTypes, s.type), fragments)
               [] OTHER ->
                    IF ~hasFragment(fragments, s.name) THEN "UnknownFragment"
                    ELSE IF fragmentNamed(fragments, s.name).type \notin SchemaTypes
                    THEN "UnknownType"
                    ELSE IF Narrow(possibleTypes, fragmentNamed(fragments, s.name).type)
                              = <<>>
                    THEN "ImpossibleFragmentSpread"
                    ELSE NoError
       IN  IF here # NoError THEN here
           ELSE selectionError(Tail(sels), possibleTypes, fragments)

RECURSIVE firstError(_)
firstError(errors) ==
  IF errors = <<>> THEN NoError
  ELSE IF Head(errors) # NoError THEN Head(errors)
  ELSE firstError(Tail(errors))

\* Resolution errors of the whole document set: operations first, then
\* fragments, each in document order.
resolutionError(document) ==
  firstError(
    [i \in 1..Len(document.operations) |->
       selectionError(document.operations[i].sels, PossibleTypesOf("Query"),
                      document.fragments)]
    \o [i \in 1..Len(document.fragments) |->
         IF document.fragments[i].type \notin SchemaTypes THEN "UnknownType"
         ELSE selectionError(document.fragments[i].sels,
                             PossibleTypesOf(document.fragments[i].type),
                             document.fragments)])

\* The identity of a selection: the operation or fragment it is written in
\* and its position there.  A selection of a fragment is the same selection
\* wherever the fragment is spread.
nodeAt(owner, path) == [owner |-> owner, path |-> path]

typenameField(at) ==
  [kind |-> "Field", name |-> "__typename", alias |-> "", type |-> "String",
   selectionSet |-> NoSelectionSet, at |-> nodeAt(at.owner, Append(at.path, 0))]

\* With addTypename, every selection set starts with a synthetic __typename.
RECURSIVE compileSelections(_, _, _, _, _)
compileSelectionSet(sels, parentType, possibleTypes, fragments, addTypename, at) ==
  [parentType |-> parentType, possibleTypes |-> possibleTypes,
   selections |->
     (IF addTypename THEN <<typenameField(at)>> ELSE <<>>)
       \o compileSelections(sels, possibleTypes, fragments, addTypename, at)]

compileSelection(s, possibleTypes, fragments, addTypename, at) ==
  CASE s.kind = "Field" ->
         [kind |-> "Field", name |-> s.name, alias |-> s.alias,
          type |-> FieldType(s.name),
          selectionSet |->
            IF s.sels = <<>> THEN NoSelectionSet
            ELSE compileSelectionSet(s.sels, FieldType(s.name),
                                     PossibleTypesOf(FieldType(s.name)), fragments,
                                     addTypename, at),
          at |-> at]
    [] s.kind = "TypeCondition" ->
         [kind |-> "TypeCondition", name |-> "", alias |-> "", type |-> s.type,
          selectionSet |->
            compileSelectionSet(s.sels, s.type, Narrow(possibleTypes, s.type),
                                fragments, addTypename, at),
          at |-> at]
    [] OTHER ->
         LET fragment == fragmentNamed(fragments, s.name)
         IN  [kind |-> "FragmentSpread", name |-> s.name, alias |-> "",
              type |-> fragment.type,
              selectionSet |->
                compileSelectionSet(fragment.sels, fragment.type,
                                    Narrow(possibleTypes, fragment.type), fragments,
                                    addTypename, nodeAt(fragment.fragmentName, <<>>)),
              at |-> at]

compileSelections(sels, possibleTypes, fragments, addTypename, at) ==
  [i \in 1..Len(sels) |->
     compileSelection(sels[i], possibleTypes, fragments, addTypename,
                      nodeAt(at.owner, Append(at.path, i)))]

(***************************************************************************)
(* Variant Engine (typeCase) and Field Merge Engine (collectAndMergeFields).*)
(***************************************************************************)
\* The output key of a field: its alias if present, else its name.
responseKey(field) == IF field.alias # "" THEN field.alias ELSE field.name

\* The field selections applicable to one concrete type, in source order.
\* A selection under a type condition or a fragment spread applies only to
\* the possible types of the condition type.  Without merging, the fields of
\* a spread on the exact type of the enclosing selection set stay with the
\* fragment.
RECURSIVE applicableFields(_, _, _, _)
applicableFields(selections, parentType, type, mergeInFragmentSpreads) ==
  IF selections = <<>> THEN <<>>
  ELSE LET s == Head(selections)
           inner == applicableFields(s.selectionSet.selections, s.type, type,
                                     mergeInFragmentSpreads)
           here ==
             CASE s.kind = "Field" -> <<s>>
               [] s.kind = "TypeCondition" ->
                    IF type \in Range(PossibleTypesOf(s.type)) THEN inner ELSE <<>>
               [] OTHER ->
                    IF type \notin Range(PossibleTypesOf(s.type)) THEN <<>>
                    ELSE IF s.type = parentType /\ ~mergeInFragmentSpreads THEN <<>>
                    ELSE inner
       IN  here \o applicableFields(Tail(selections), parentType, type,
                                    mergeInFragmentSpreads)

\* The grouping key of a possible type: the set of selections applicable to
\* it, each with its identity.
typeKey(selectionSet, type, mergeInFragmentSpreads) ==
  Range(applicableFields(selectionSet.selections, selectionSet.parentType, type,
                         mergeInFragmentSpreads))

\* The possible types grouped with `type`, in the order of possibleTypes.
typeGroup(selectionSet, type, mergeInFragmentSpreads) ==
  SelectSeq(selectionSet.possibleTypes,
            LAMBDA u : typeKey(selectionSet, u, mergeInFragmentSpreads)
                         = typeKey(selectionSet, type, mergeInFragmentSpreads))

\* One variant per group of possible types, ordered by the first type of the
\* group in possibleTypes.
typeCaseForSelectionSet(selectionSet, mergeInFragmentSpreads) ==
  LET leaders ==
        SelectSeq(selectionSet.possibleTypes,
                  LAMBDA t : Head(typeGroup(selectionSet, t, mergeInFragmentSpreads)) = t)
  IN  [exhaustiveVariants |->
         [i \in 1..Len(leaders) |->
            [parentType |-> selectionSet.parentType,
             possibleTypes |-> typeGroup(selectionSet, leaders[i], mergeInFragmentSpreads),
             selections |-> selectionSet.selections]]]

keyIndex(fields, key) ==
  IF \E i \in 1..Len(fields) : responseKey(fields[i]) = key
  THEN CHOOSE i \in 1..Len(fields) : responseKey(fields[i]) = key
  ELSE 0

\* Two entries under one output key become one; their nested selections are
\* merged by taking the union of their selections.
mergeField(into, field) ==
  IF into.selectionSet = NoSelectionSet THEN into
  ELSE [into EXCEPT !.selectionSet.selections = @ \o field.selectionSet.selections]

RECURSIVE mergeFields(_, _)
mergeFields(merged, fields) ==
  IF fields = <<>> THEN merged
  ELSE LET i == keyIndex(merged, responseKey(Head(fields)))
       IN  mergeFields(IF i = 0 THEN Append(merged, Head(fields))
                       ELSE [merged EXCEPT ![i] = mergeField(@, Head(fields))],
                       Tail(fields))

\* The ordered, deduplicated field list of a variant: first-seen order of
\* output keys.
collectAndMergeFields(variant, mergeInFragmentSpreads) ==
  mergeFields(<<>>,
              applicableFields(variant.selections, variant.parentType,
                               Head(variant.possibleTypes), mergeInFragmentSpreads))

\* Two selections under one output key name different schema fields.
fieldsConflict(fields) ==
  \E i, j \in 1..Len(fields) :
    /\ responseKey(fields[i]) = responseKey(fields[j])
    /\ fields[i].name # fields[j].name

RECURSIVE selectionSetConflict(_, _)
selectionSetConflict(selectionSet, mergeInFragmentSpreads) ==
  \E t \in Range(selectionSet.possibleTypes) :
    LET fields == applicableFields(selectionSet.selections, selectionSet.parentType, t,
                                   mergeInFragmentSpreads)
        merged == mergeFields(<<>>, fields)
    IN  \/ fieldsConflict(fields)
        \/ \E i \in 1..Len(merged) :
             /\ merged[i].selectionSet # NoSelectionSet
             /\ selectionSetConflict(merged[i].selectionSet, mergeInFragmentSpreads)

\* compileToIR: the CompilerContext of a document set, or the error that
\* aborts the compilation; nothing is returned next to an error.
NoOptions == [merge |-> FALSE, addTypename |-> FALSE, generateOperationIds |-> FALSE]

NoContext == [operations |-> <<>>, fragments |-> <<>>, options |-> NoOptions]

compileOperation(operation, fragments, addTypename) ==
  [operationName |-> operation.operationName, variables |-> operation.variables,
   filePath |-> operation.filePath,
   selectionSet |->
     compileSelectionSet(operation.sels, "Query", PossibleTypesOf("Query"), fragments,
                         addTypename, nodeAt(operation.operationName, <<>>))]

compileFragment(fragment, fragments, addTypename) ==
  [fragmentName |-> fragment.fragmentName, type |-> fragment.type,
   filePath |-> fragment.filePath,
   selectionSet |->
     compileSelectionSet(fragment.sels, fragment.type, PossibleTypesOf(fragment.type),
                         fragments, addTypename, nodeAt(fragment.fragmentName, <<>>))]

compiledContext(document, options) ==
  [operations |->
     [i \in 1..Len(document.operations) |->
        compileOperation(document.operations[i], document.fragments,
                         options.addTypename)],
   fragments |->
     [i \in 1..Len(document.fragments) |->
        compileFragment(document.fragments[i], document.fragments,
                        options.addTypename)],
   options |-> options]

mergeConflictIn(context) ==
  \/ \E i \in 1..Len(context.operations) :
       selectionSetConflict(context.operations[i].selectionSet, context.options.merge)
  \/ \E i \in 1..Len(context.fragments) :
       selectionSetConflict(context.fragments[i].selectionSet, context.options.merge)

compileToIR(document, options) ==
  IF resolutionError(document) # NoError
  THEN [error |-> resolutionError(document), context |-> NoContext]
  ELSE IF mergeConflictIn(compiledContext(document, options))
  THEN [error |-> "FieldMergeConflict", context |-> NoContext]
  ELSE [error |-> NoError, context |-> compiledContext(document, options)]

\* The external validator: a document that selects a field the schema does
\* not define is rejected before it reaches the compiler.
KnownFields == {"animal", "friend", "name", "id", "__typename"}

RECURSIVE selectsUnknownField(_)
selectsUnknownField(sels) ==
  \E i \in 1..Len(sels) :
    \/ sels[i].kind = "Field" /\ sels[i].name \notin KnownFields
    \/ selectsUnknownField(sels[i].sels)

validateQueryDocument(document) ==
  IF \/ \E i \in 1..Len(document.operations) :
          selectsUnknownField(document.operations[i].sels)
     \/ \E i \in 1..Len(document.fragments) :
          selectsUnknownField(document.fragments[i].sels)
  THEN "ValidationError"
  ELSE NoError

(***************************************************************************)
(* TypescriptAPIGenerator: language helpers and the naming scope.         *)
(***************************************************************************)
scopeStackPush(scope, name) == Append(scope, name)

\* A pop that leaves the segment on the stack.
scopeStackPopNothing(scope) == scope

scopeStackPop(scope) == Front(scope)

\* The identifier of the current scope: its segments joined by "_".
RECURSIVE nameFromScopeStack(_)
nameFromScopeStack(scope) ==
  IF scope = <<>> THEN <<>>
  ELSE IF Len(scope) = 1 THEN Head(scope)
  ELSE Head(scope) \o <<"_">> \o nameFromScopeStack(Tail(scope))

interface(name, properties) ==
  [kind |-> "interface", name |-> name, members |-> properties]

typeAliasGenericUnion(name, members) ==
  [kind |-> "union", name |-> name, members |-> members]

comment(text) == [kind |-> "comment", name |-> <<text>>, members |-> <<>>]

\* typeFromGraphQLType: a composite type is referred to by the generated
\* identifier, a scalar by its TypeScript name.
typeFromGraphQLType(type, identifier) ==
  IF PossibleTypesOf(type) # <<>>
  THEN [kind |-> "ref", names |-> <<identifier>>]
  ELSE [kind |-> "scalar", names |-> <<<<"string">>>>]

fieldName(field) == IF field.alias # "" THEN field.alias ELSE field.name

\* The property named after the schema field even when the field is aliased.
propertyNameIgnoringAlias(field) == field.name

propertyName(field) == IF field.alias # "" THEN field.alias ELSE field.name

\* The type case with the default variant (all possible types) in front, as
\* defaultAndVariants would give it.
getTypeCasesWithDefault(selectionSet, options) ==
  [exhaustiveVariants |->
     << [parentType |-> selectionSet.parentType,
         possibleTypes |-> selectionSet.possibleTypes,
         selections |-> selectionSet.selections] >>
       \o typeCaseForSelectionSet(selectionSet, options.merge).exhaustiveVariants]

\* The type case computed without the configured merge option.
getTypeCasesNotMerging(selectionSet, options) ==
  typeCaseForSelectionSet(selectionSet, FALSE)

getTypeCasesForSelectionSet(selectionSet, options) ==
  typeCaseForSelectionSet(selectionSet, options.merge)

\* The variants without the first one when there are several, as reading
\* the type case without its remainder would give them.
getVariantsWithoutRemainder(selectionSet, options) ==
  LET all == getTypeCasesForSelectionSet(selectionSet, options).exhaustiveVariants
  IN  IF Len(all) > 1 THEN Tail(all) ELSE all

getVariantsForSelectionSet(selectionSet, options) ==
  getTypeCasesForSelectionSet(selectionSet, options).exhaustiveVariants

mergedFieldsOf(variant, options) == collectAndMergeFields(variant, options.merge)

\* __typename typed like any other scalar field.
handleFieldValueAsScalar(field, variant) ==
  [name |-> propertyName(field), type |-> typeFromGraphQLType(field.type, <<>>)]

handleFieldValue(field, variant) ==
  IF field.name = "__typename"
  THEN [name |-> propertyName(field),
        type |-> [kind |-> "literals",
                  names |-> [i \in 1..Len(variant.possibleTypes) |->
                               Spell(variant.possibleTypes[i])]]]
  ELSE [name |-> propertyName(field), type |-> typeFromGraphQLType(field.type, <<>>)]

fileHeader == <<comment("generated")>>

(***************************************************************************)
(* Inputs of generate.                                                    *)
(***************************************************************************)
Targets ==
  {"json", "swift", "ts-legacy", "typescript-legacy", "flow-legacy", "scala", "flow",
   "typescript", "ts"}

TypescriptTargets == {"typescript", "ts"}

OutputPaths == { <<"__generated__">>, <<"out", ".", "ts">> }

AnimalQuery(name, variables, body) ==
  OperationDef(name, variables, <<FieldNode("animal", "", body)>>)

\* Hand-written documents: one per error kind, two operations whose names
\* meet in 'Variables', and an operation that shares its name with a fragment.
SmallDocuments ==
  { [operations |-> <<AnimalQuery("Foo", <<"x">>, <<FieldNode("name", "", <<>>)>>),
                     AnimalQuery("FooVariables", <<>>, <<FieldNode("id", "", <<>>)>>)>>,
     fragments |-> <<>>],
    [operations |-> <<AnimalQuery("F", <<>>, <<SpreadNode("F")>>)>>,
     fragments |-> <<FragmentF>>],
    [operations |-> <<AnimalQuery("Foo", <<>>, <<SpreadNode("F")>>)>>,
     fragments |-> <<FragmentF, FragmentF>>],
    [operations |-> <<AnimalQuery("Foo", <<>>, <<SpreadNode("Missing")>>)>>,
     fragments |-> <<>>],
    [operations |->
       <<AnimalQuery("Foo", <<>>,
                     <<TypeConditionNode("Ghost", <<FieldNode("name", "", <<>>)>>)>>)>>,
     fragments |-> <<>>],
    [operations |->
       <<AnimalQuery("Foo", <<>>,
                     <<TypeConditionNode("Cat",
                         <<TypeConditionNode("Dog", <<FieldNode("name", "", <<>>)>>)>>)>>)>>,
     fragments |-> <<>>],
    [operations |->
       <<AnimalQuery("Foo", <<>>, <<TypeConditionNode("Cat", <<SpreadNode("G")>>)>>)>>,
     fragments |-> <<FragmentF, FragmentG>>],
    [operations |->
       <<AnimalQuery("Foo", <<>>,
                     <<FieldNode("name", "", <<>>), FieldNode("id", "name", <<>>)>>)>>,
     fragments |-> <<>>],
    [operations |-> <<AnimalQuery("Foo", <<>>, <<FieldNode("bogus", "", <<>>)>>)>>,
     fragments |-> <<>>],
    [operations |->
       <<AnimalQuery("Foo", <<"x">>,
                     <<SpreadNode("G"),
                       TypeConditionNode("Cat",
                         <<FieldNode("friend", "", <<SpreadNode("F")>>)>>)>>)>>,
     fragments |-> <<FragmentF, FragmentG>>] }

DefaultOptions ==
  [merge |-> TRUE, addTypename |-> FALSE, generateOperationIds |-> FALSE]

OptionSets ==
  [merge : BOOLEAN, addTypename : BOOLEAN, generateOperationIds : BOOLEAN]

NoFiles == [p \in {} |-> <<>>]

VARIABLES
  document, target, outputPath, nextToSources, options,
  pc, error, returned, writtenFiles, dirs, files, context,
  scopeStack, printer, generatedFiles, common, docIndex, stack, ret,
  runs, firstRun,
  flags, args, isTTY, cmd, cmdError, watcherOpen, keyPressed, changes, task, ctx, results

arguments == <<document, target, outputPath, nextToSources, options>>

generator == <<scopeStack, printer, generatedFiles, common, docIndex, stack, ret>>

\* The state of the codegen:generate command around the calls of generate.
command ==
  <<flags, args, isTTY, cmd, cmdError, watcherOpen, keyPressed, changes, task, ctx, results>>

history == <<runs, firstRun, command>>

vars ==
  <<document, target, outputPath, nextToSources, options, pc, error, returned,
    writtenFiles, dirs, files, context, scopeStack, printer, generatedFiles, common,
    docIndex, stack, ret, runs, firstRun, flags, args, isTTY, cmd, cmdError,
    watcherOpen, keyPressed, changes, task, ctx, results>>

NoResult == "none"

NoRun == [error |-> NoError, returned |-> NoResult, context |-> NoContext,
          generatedFiles |-> <<>>, common |-> <<>>, files |-> NoFiles]

\* generate called on its own, outside the command.
NoFlags ==
  [target |-> "", watch |-> FALSE, outputFlat |-> FALSE, addTypename |-> FALSE,
   mergeInFieldsFromFragmentSpreads |-> FALSE, operationIdsPath |-> FALSE]

NoCommand ==
  /\ flags = NoFlags
  /\ args = [output |-> <<>>]
  /\ isTTY = TRUE
  /\ cmd = "none"
  /\ cmdError = NoError
  /\ watcherOpen = FALSE
  /\ keyPressed = FALSE
  /\ changes = 0
  /\ task = <<>>
  /\ ctx = <<>>
  /\ results = <<>>

\* The state at the call of generate.
Started ==
  /\ pc = "load"
  /\ error = NoError
  /\ returned = NoResult
  /\ writtenFiles = 0
  /\ files = NoFiles
  /\ context = NoContext
  /\ scopeStack = <<>>
  /\ printer = <<>>
  /\ generatedFiles = <<>>
  /\ common = <<>>
  /\ docIndex = 1
  /\ stack = <<>>
  /\ ret = <<>>
  /\ runs = 1
  /\ firstRun = NoRun
  /\ NoCommand

\* Generated documents under the default command line of the TypeScript target.
InitGenerated ==
  /\ document \in GeneratedDocuments \cup ScenarioDocuments
  /\ target = "typescript"
  /\ outputPath = <<"__generated__">>
  /\ nextToSources = TRUE
  /\ options = DefaultOptions
  /\ dirs = {}
  /\ Started

\* The hand-written documents under every target and output layout.
InitSmall ==
  /\ document \in SmallDocuments
  /\ target \in Targets
  /\ outputPath \in OutputPaths
  /\ nextToSources \in BOOLEAN
  /\ options \in { o \in OptionSets : o.generateOperationIds => target = "swift" }
  /\ dirs \in { {}, { <<outputPath>> } }
  /\ Started

Init == InitGenerated \/ InitSmall

(***************************************************************************)
(* generate: loading, validation, compilation.                            *)
(***************************************************************************)
\* The number of parts of a path split at '.'.
RECURSIVE splitLength(_)
splitLength(path) ==
  IF path = <<>> THEN 1
  ELSE (IF Head(path) = "." THEN 1 ELSE 0) + splitLength(Tail(path))

outputFile == [dir |-> <<>>, file |-> outputPath]

isDirectory(directory) == directory \in dirs

existsSync(path) == path \in DOMAIN files \/ Append(path.dir, path.file) \in dirs

\* files with the entries written in order: a later entry replaces an
\* earlier one under the same path.
RECURSIVE writeAll(_, _)
writeAll(into, entries) ==
  IF entries = <<>> THEN into
  ELSE writeAll([q \in DOMAIN into \cup {Head(entries).path} |->
                   IF q = Head(entries).path THEN Head(entries).output ELSE into[q]],
                Tail(entries))

\* Compilation that goes on with the context when a spread is impossible.
compileStepIgnoringImpossibleSpreads(doc, opts) ==
  IF compileToIR(doc, opts).error = "ImpossibleFragmentSpread"
  THEN [error |-> NoError, context |-> compiledContext(doc, opts)]
  ELSE compileToIR(doc, opts)

\* Compilation that goes on with the context when fields conflict.
compileStepIgnoringConflicts(doc, opts) ==
  IF compileToIR(doc, opts).error = "FieldMergeConflict"
  THEN [error |-> NoError, context |-> compiledContext(doc, opts)]
  ELSE compileToIR(doc, opts)

\* Compilation whose errors are caught and dropped.
compileStepSwallowingErrors(doc, opts) ==
  [error |-> NoError, context |-> compileToIR(doc, opts).context]

compileStep(doc, opts) == compileToIR(doc, opts)

LoadDocuments ==
  /\ pc = "load"
  /\ LET loaded == loadAndMergeQueryDocuments(document)
     IN  IF loaded.error # NoError
         THEN pc' = "failed" /\ error' = loaded.error
         ELSE pc' = "validate" /\ error' = error
  /\ UNCHANGED <<arguments, returned, writtenFiles, dirs, files, context, generator,
                 history>>

ValidateDocument ==
  /\ pc = "validate"
  /\ IF validateQueryDocument(document) # NoError
     THEN pc' = "failed" /\ error' = validateQueryDocument(document)
     ELSE pc' = "mkdir" /\ error' = error
  /\ UNCHANGED <<arguments, returned, writtenFiles, dirs, files, context, generator,
                 history>>

MakeOutputDirectory ==
  /\ pc = "mkdir"
  /\ dirs' = IF splitLength(outputPath) <= 1 /\ ~existsSync(outputFile)
             THEN dirs \cup { <<outputPath>> }
             ELSE dirs
  /\ pc' = "compile"
  /\ UNCHANGED <<arguments, error, returned, writtenFiles, files, context, generator,
                 history>>

\* compileToIR for the swift, flow and typescript targets; swift switches
\* addTypename on first.
CompileIR ==
  /\ pc = "compile"
  /\ target \in {"swift", "flow"} \cup TypescriptTargets
  /\ options' = IF target = "swift" THEN [options EXCEPT !.addTypename = TRUE]
                ELSE options
  /\ LET compiled == compileStep(document, options')
     IN  IF compiled.error # NoError
         THEN /\ pc' = "failed"
              /\ error' = compiled.error
              /\ context' = context
         ELSE /\ pc' = IF target = "swift" THEN "swift" ELSE "generateSource"
              /\ error' = error
              /\ context' = compiled.context
  /\ UNCHANGED <<document, target, outputPath, nextToSources, returned, writtenFiles,
                 dirs, files, generator, history>>

\* compileToLegacyIR for every other target.
CompileLegacyIR ==
  /\ pc = "compile"
  /\ target \notin {"swift", "flow"} \cup TypescriptTargets
  /\ LET compiled == compileStep(document, options)
     IN  IF compiled.error # NoError
         THEN /\ pc' = "failed"
              /\ error' = compiled.error
              /\ context' = context
         ELSE /\ pc' = "legacy"
              /\ error' = error
              /\ context' = compiled.context
  /\ UNCHANGED <<arguments, returned, writtenFiles, dirs, files, generator, history>>

(***************************************************************************)
(* generateSource: the generator walks every operation and fragment.      *)
(* stack holds the activation records of interfacesForOperation,          *)
(* interfacesForFragment, getPropertiesForVariant and                     *)
(* handleFieldSelectionSetValue; ret holds the value last returned.       *)
(***************************************************************************)
NoField ==
  [kind |-> "", name |-> "", alias |-> "", type |-> "", selectionSet |-> NoSelectionSet,
   at |-> nodeAt("", <<>>)]

BaseFrame ==
  [fn |-> "", phase |-> "", entry |-> <<>>, selectionSet |-> NoSelectionSet,
   variants |-> <<>>, variant |-> NoSelectionSet, fields |-> <<>>, index |-> 1,
   collected |-> <<>>, identifier |-> <<>>, field |-> NoField]

\* The activation of getPropertiesForVariant(variant), entered under `scope`.
propertiesFrame(variant, scope) ==
  [BaseFrame EXCEPT !.fn = "getPropertiesForVariant", !.phase = "next",
                    !.entry = scope, !.variant = variant,
                    !.fields = mergedFieldsOf(variant, context.options)]

\* The activation of handleFieldSelectionSetValue(identifier(scope), field).
fieldFrame(field, scope) ==
  [BaseFrame EXCEPT !.fn = "handleFieldSelectionSetValue", !.phase = "enter",
                    !.entry = scope, !.identifier = nameFromScopeStack(scope),
                    !.field = field, !.selectionSet = field.selectionSet,
                    !.variants =
                      getTypeCasesForSelectionSet(field.selectionSet, context.options)
                        .exhaustiveVariants]

top == Last(stack)

withTop(frame) == [stack EXCEPT ![Len(stack)] = frame]

running(fn) == pc = "emit" /\ stack # <<>> /\ top.fn = fn

\* One generator kept across calls of generateSource.
reusedGenerator ==
  [scopeStack |-> scopeStack, printer |-> printer, generatedFiles |-> generatedFiles]

newGenerator == [scopeStack |-> <<>>, printer |-> <<>>, generatedFiles |-> <<>>]

documentCount == Len(context.operations) + Len(context.fragments)

generatedFile(sourcePath, name, output) ==
  [sourcePath |-> sourcePath, fileName |-> name \o <<".ts">>, content |-> output]

NewGenerator ==
  /\ pc = "generateSource"
  /\ target \in TypescriptTargets
  /\ scopeStack' = newGenerator.scopeStack
  /\ printer' = newGenerator.printer
  /\ generatedFiles' = newGenerator.generatedFiles
  /\ docIndex' = 1
  /\ pc' = "emit"
  /\ UNCHANGED <<arguments, error, returned, writtenFiles, dirs, files, context, common,
                 stack, ret, history>>

BeginOperation ==
  /\ pc = "emit"
  /\ stack = <<>>
  /\ docIndex <= Len(context.operations)
  /\ LET operation == context.operations[docIndex]
         scope == scopeStackPush(scopeStack, Spell(operation.operationName))
         variants == getVariantsForSelectionSet(operation.selectionSet, context.options)
     IN  /\ scopeStack' = scope
         /\ printer' = printer \o fileHeader \o <<comment("operation")>>
         /\ stack' = << [BaseFrame EXCEPT !.fn = "interfacesForOperation",
                                          !.phase = "properties",
                                          !.entry = scopeStack,
                                          !.selectionSet = operation.selectionSet,
                                          !.variants = variants],
                        propertiesFrame(variants[1], scope) >>
  /\ UNCHANGED <<arguments, pc, error, returned, writtenFiles, dirs, files, context,
                 generatedFiles, common, docIndex, ret, history>>

ScalarField ==
  /\ running("getPropertiesForVariant")
  /\ top.phase = "next"
  /\ top.index <= Len(top.fields)
  /\ top.fields[top.index].selectionSet = NoSelectionSet
  /\ scopeStack' = scopeStackPush(scopeStack, Spell(fieldName(top.fields[top.index])))
  /\ ret' = handleFieldValue(top.fields[top.index], top.variant)
  /\ stack' = withTop([top EXCEPT !.phase = "pushed"])
  /\ UNCHANGED <<arguments, pc, error, returned, writtenFiles, dirs, files, context,
                 printer, generatedFiles, common, docIndex, history>>

CompositeField ==
  /\ running("getPropertiesForVariant")
  /\ top.phase = "next"
  /\ top.index <= Len(top.fields)
  /\ top.fields[top.index].selectionSet # NoSelectionSet
  /\ LET field == top.fields[top.index]
         scope == scopeStackPush(scopeStack, Spell(fieldName(field)))
     IN  /\ scopeStack' = scope
         /\ stack' = Append(withTop([top EXCEPT !.phase = "pushed"]),
                            fieldFrame(field, scope))
  /\ UNCHANGED <<arguments, pc, error, returned, writtenFiles, dirs, files, context,
                 printer, generatedFiles, common, docIndex, ret, history>>

PopField ==
  /\ running("getPropertiesForVariant")
  /\ top.phase = "pushed"
  /\ scopeStack' = scopeStackPop(scopeStack)
  /\ stack' = withTop([top EXCEPT !.phase = "next", !.index = @ + 1,
                                  !.collected = Append(@, ret)])
  /\ ret' = <<>>
  /\ UNCHANGED <<arguments, pc, error, returned, writtenFiles, dirs, files, context,
                 printer, generatedFiles, common, docIndex, history>>

ReturnProperties ==
  /\ running("getPropertiesForVariant")
  /\ top.phase = "next"
  /\ top.index > Len(top.fields)
  /\ stack' = Front(stack)
  /\ ret' = top.collected
  /\ UNCHANGED <<arguments, pc, error, returned, writtenFiles, dirs, files, context,
                 scopeStack, printer, generatedFiles, common, docIndex, history>>

fieldProperty(frame) ==
  [name |-> propertyName(frame.field),
   type |-> typeFromGraphQLType(frame.field.type, frame.identifier)]

SingleVariantField ==
  /\ running("handleFieldSelectionSetValue")
  /\ top.phase = "enter"
  /\ Len(top.variants) = 1
  /\ stack' = Append(withTop([top EXCEPT !.phase = "single"]),
                     propertiesFrame(top.variants[1], scopeStack))
  /\ UNCHANGED <<arguments, pc, error, returned, writtenFiles, dirs, files, context,
                 scopeStack, printer, generatedFiles, common, docIndex, ret, history>>

DeclareFieldInterface ==
  /\ running("handleFieldSelectionSetValue")
  /\ top.phase = "single"
  /\ printer' = Append(printer, interface(nameFromScopeStack(scopeStack), ret))
  /\ stack' = Front(stack)
  /\ ret' = fieldProperty(top)
  /\ UNCHANGED <<arguments, pc, error, returned, writtenFiles, dirs, files, context,
                 scopeStack, generatedFiles, common, docIndex, history>>

PushFieldVariant ==
  /\ running("handleFieldSelectionSetValue")
  /\ top.phase \in {"enter", "multi"}
  /\ Len(top.variants) # 1
  /\ top.index <= Len(top.variants)
  /\ LET variant == top.variants[top.index]
         scope == scopeStackPush(scopeStack, Spell(variant.possibleTypes[1]))
     IN  /\ scopeStack' = scope
         /\ stack' = Append(withTop([top EXCEPT !.phase = "variant"]),
                            propertiesFrame(variant, scope))
  /\ UNCHANGED <<arguments, pc, error, returned, writtenFiles, dirs, files, context,
                 printer, generatedFiles, common, docIndex, ret, history>>

DeclareFieldVariant ==
  /\ running("handleFieldSelectionSetValue")
  /\ top.phase = "variant"
  /\ printer' = Append(printer, interface(nameFromScopeStack(scopeStack), ret))
  /\ scopeStack' = scopeStackPop(scopeStack)
  /\ stack' = withTop([top EXCEPT !.phase = "multi", !.index = @ + 1,
                                  !.collected = Append(@, nameFromScopeStack(scopeStack))])
  /\ ret' = <<>>
  /\ UNCHANGED <<arguments, pc, error, returned, writtenFiles, dirs, files, context,
                 generatedFiles, common, docIndex, history>>

DeclareFieldUnion ==
  /\ running("handleFieldSelectionSetValue")
  /\ top.phase \in {"enter", "multi"}
  /\ Len(top.variants) # 1
  /\ top.index > Len(top.variants)
  /\ printer' = Append(printer, typeAliasGenericUnion(top.identifier, top.collected))
  /\ stack' = Front(stack)
  /\ ret' = fieldProperty(top)
  /\ UNCHANGED <<arguments, pc, error, returned, writtenFiles, dirs, files, context,
                 scopeStack, generatedFiles, common, docIndex, history>>

variableProperty(name) ==
  [name |-> name, type |-> typeFromGraphQLType("String", <<>>)]

DeclareOperation ==
  /\ running("interfacesForOperation")
  /\ top.phase = "properties"
  /\ printer' = Append(printer,
                       interface(Spell(context.operations[docIndex].operationName), ret))
  /\ scopeStack' = scopeStackPop(scopeStack)
  /\ stack' = withTop([top EXCEPT !.phase = "variables"])
  /\ ret' = <<>>
  /\ UNCHANGED <<arguments, pc, error, returned, writtenFiles, dirs, files, context,
                 generatedFiles, common, docIndex, history>>

PushVariables ==
  /\ running("interfacesForOperation")
  /\ top.phase = "variables"
  /\ Len(context.operations[docIndex].variables) > 0
  /\ LET operation == context.operations[docIndex]
         interfaceName == Spell(operation.operationName) \o <<"Variables">>
     IN  /\ scopeStack' = scopeStackPush(scopeStack, interfaceName)
         /\ printer' = Append(printer,
                              interface(interfaceName,
                                        [i \in 1..Len(operation.variables) |->
                                           variableProperty(operation.variables[i])]))
  /\ stack' = withTop([top EXCEPT !.phase = "variablesPushed"])
  /\ UNCHANGED <<arguments, pc, error, returned, writtenFiles, dirs, files, context,
                 generatedFiles, common, docIndex, ret, history>>

PopVariables ==
  /\ running("interfacesForOperation")
  /\ top.phase = "variablesPushed"
  /\ scopeStack' = scopeStackPop(scopeStack)
  /\ stack' = withTop([top EXCEPT !.phase = "end"])
  /\ UNCHANGED <<arguments, pc, error, returned, writtenFiles, dirs, files, context,
                 printer, generatedFiles, common, docIndex, ret, history>>

\* interfacesForOperation has returned: printAndClear and the file record.
EmitOperationFile ==
  /\ running("interfacesForOperation")
  /\ \/ top.phase = "end"
     \/ top.phase = "variables" /\ Len(context.operations[docIndex].variables) = 0
  /\ generatedFiles' =
       Append(generatedFiles,
              generatedFile(context.operations[docIndex].filePath,
                            Spell(context.operations[docIndex].operationName), printer))
  /\ printer' = <<>>
  /\ docIndex' = docIndex + 1
  /\ stack' = <<>>
  /\ UNCHANGED <<arguments, pc, error, returned, writtenFiles, dirs, files, context,
                 scopeStack, common, ret, history>>

fragmentAt(index) == context.fragments[index - Len(context.operations)]

BeginFragment ==
  /\ pc = "emit"
  /\ stack = <<>>
  /\ docIndex > Len(context.operations)
  /\ docIndex <= documentCount
  /\ LET fragment == fragmentAt(docIndex)
         scope == scopeStackPush(scopeStack, Spell(fragment.fragmentName))
         variants == getVariantsForSelectionSet(fragment.selectionSet, context.options)
         frame == [BaseFrame EXCEPT !.fn = "interfacesForFragment",
                                    !.entry = scopeStack,
                                    !.selectionSet = fragment.selectionSet,
                                    !.variants = variants]
     IN  /\ scopeStack' = scope
         /\ printer' = printer \o fileHeader \o <<comment("fragment")>>
         /\ stack' = IF Len(variants) = 1
                     THEN << [frame EXCEPT !.phase = "single"],
                             propertiesFrame(variants[1], scope) >>
                     ELSE << [frame EXCEPT !.phase = "multi"] >>
  /\ UNCHANGED <<arguments, pc, error, returned, writtenFiles, dirs, files, context,
                 generatedFiles, common, docIndex, ret, history>>

DeclareFragmentInterface ==
  /\ running("interfacesForFragment")
  /\ top.phase = "single"
  /\ printer' = Append(printer, interface(nameFromScopeStack(scopeStack), ret))
  /\ scopeStack' = scopeStackPop(scopeStack)
  /\ stack' = withTop([top EXCEPT !.phase = "end"])
  /\ ret' = <<>>
  /\ UNCHANGED <<arguments, pc, error, returned, writtenFiles, dirs, files, context,
                 generatedFiles, common, docIndex, history>>

PushFragmentVariant ==
  /\ running("interfacesForFragment")
  /\ top.phase = "multi"
  /\ top.index <= Len(top.variants)
  /\ LET variant == top.variants[top.index]
         scope == scopeStackPush(scopeStack, Spell(variant.possibleTypes[1]))
     IN  /\ scopeStack' = scope
         /\ stack' = Append(withTop([top EXCEPT !.phase = "variant"]),
                            propertiesFrame(variant, scope))
  /\ UNCHANGED <<arguments, pc, error, returned, writtenFiles, dirs, files, context,
                 printer, generatedFiles, common, docIndex, ret, history>>

DeclareFragmentVariant ==
  /\ running("interfacesForFragment")
  /\ top.phase = "variant"
  /\ printer' = Append(printer, interface(nameFromScopeStack(scopeStack), ret))
  /\ scopeStack' = scopeStackPop(scopeStack)
  /\ stack' = withTop([top EXCEPT !.phase = "multi", !.index = @ + 1,
                                  !.collected = Append(@, nameFromScopeStack(scopeStack))])
  /\ ret' = <<>>
  /\ UNCHANGED <<arguments, pc, error, returned, writtenFiles, dirs, files, context,
                 generatedFiles, common, docIndex, history>>

DeclareFragmentUnion ==
  /\ running("interfacesForFragment")
  /\ top.phase = "multi"
  /\ top.index > Len(top.variants)
  /\ printer' = Append(printer,
                       typeAliasGenericUnion(nameFromScopeStack(scopeStack),
                                             top.collected))
  /\ scopeStack' = scopeStackPop(scopeStack)
  /\ stack' = withTop([top EXCEPT !.phase = "end"])
  /\ UNCHANGED <<arguments, pc, error, returned, writtenFiles, dirs, files, context,
                 generatedFiles, common, docIndex, ret, history>>

\* interfacesForFragment has returned: printAndClear and the file record.
EmitFragmentFile ==
  /\ running("interfacesForFragment")
  /\ top.phase = "end"
  /\ generatedFiles' =
       Append(generatedFiles,
              generatedFile(fragmentAt(docIndex).filePath,
                            Spell(fragmentAt(docIndex).fragmentName), printer))
  /\ printer' = <<>>
  /\ docIndex' = docIndex + 1
  /\ stack' = <<>>
  /\ UNCHANGED <<arguments, pc, error, returned, writtenFiles, dirs, files, context,
                 scopeStack, common, ret, history>>

\* The common part: the header and the (empty) enum and input object section.
FinishSource ==
  /\ pc = "emit"
  /\ stack = <<>>
  /\ docIndex > documentCount
  /\ common' = printer \o fileHeader \o <<comment("START Enums and Input Objects"),
                                          comment("END Enums and Input Objects")>>
  /\ printer' = <<>>
  /\ pc' = "write"
  /\ UNCHANGED <<arguments, error, returned, writtenFiles, dirs, files, context,
                 scopeStack, generatedFiles, docIndex, stack, ret, history>>

(***************************************************************************)
(* The other generators are pure renderings of the compiled context.      *)
(***************************************************************************)
rendered(by, name) == <<[kind |-> "rendered", name |-> <<by>> \o name, members |-> <<>>]>>

documentName(index) ==
  IF index <= Len(context.operations)
  THEN Spell(context.operations[index].operationName)
  ELSE Spell(fragmentAt(index).fragmentName)

documentPath(index) ==
  IF index <= Len(context.operations)
  THEN context.operations[index].filePath
  ELSE fragmentAt(index).filePath

renderedFiles(by, extension) ==
  [i \in 1..documentCount |->
     [sourcePath |-> documentPath(i), fileName |-> documentName(i) \o <<extension>>,
      content |-> rendered(by, documentName(i))]]

GenerateFlowSource ==
  /\ pc = "generateSource"
  /\ target = "flow"
  /\ generatedFiles' = renderedFiles("flow", ".js")
  /\ common' = rendered("flow", <<"common">>)
  /\ pc' = "write"
  /\ UNCHANGED <<arguments, error, returned, writtenFiles, dirs, files, context,
                 scopeStack, printer, docIndex, stack, ret, history>>

(***************************************************************************)
(* generate: writing the generated files.                                 *)
(***************************************************************************)
RECURSIVE joinContents(_)
joinContents(contents) ==
  IF contents = <<>> THEN <<>>
  ELSE IF Len(contents) = 1 THEN Head(contents)
  ELSE Head(contents) \o <<comment("newline")>> \o joinContents(Tail(contents))

\* generatedFiles placed in the directories named, one for each file.
outFilesIn(directories) ==
  [i \in 1..Len(generatedFiles) |->
     [path |-> [dir |-> directories[i],
                file |-> generatedFiles[i].fileName],
      output |-> generatedFiles[i].content \o common]]

nextToSource(file) == Append(file.sourcePath.dir, outputPath)

inOutputDirectory(file) == <<outputPath>>

finish(count) ==
  /\ writtenFiles' = count
  /\ returned' = count
  /\ pc' = "done"

WriteNextToSources ==
  /\ pc = "write"
  /\ nextToSources
  /\ LET entries == outFilesIn([i \in 1..Len(generatedFiles) |->
                                  nextToSource(generatedFiles[i])])
     IN  /\ dirs' = dirs \cup { entries[i].path.dir : i \in 1..Len(entries) }
         /\ files' = writeAll(files, entries)
         /\ finish(writtenFiles + Cardinality(DOMAIN writeAll(NoFiles, entries)))
  /\ UNCHANGED <<arguments, error, context, generator, history>>

WriteToDirectory ==
  /\ pc = "write"
  /\ ~nextToSources
  /\ existsSync(outputFile) /\ isDirectory(<<outputPath>>)
  /\ LET entries == outFilesIn([i \in 1..Len(generatedFiles) |->
                                  inOutputDirectory(generatedFiles[i])])
     IN  /\ files' = writeAll(files, entries)
         /\ finish(writtenFiles + Cardinality(DOMAIN writeAll(NoFiles, entries)))
  /\ UNCHANGED <<arguments, error, dirs, context, generator, history>>

WriteSingleFile ==
  /\ pc = "write"
  /\ ~nextToSources
  /\ ~(existsSync(outputFile) /\ isDirectory(<<outputPath>>))
  /\ files' = writeAll(files,
                       << [path |-> outputFile,
                           output |->
                             joinContents([i \in 1..Len(generatedFiles) |->
                                             generatedFiles[i].content]) \o common] >>)
  /\ finish(writtenFiles + 1)
  /\ UNCHANGED <<arguments, error, dirs, context, generator, history>>

operationIdsFile == [dir |-> <<>>, file |-> <<"operationIds", ".", "json">>]

\* The swift branch: one file per document into a directory, or one file;
\* then the operation ids map when asked for.
WriteSwift ==
  /\ pc = "swift"
  /\ LET individual == existsSync(outputFile) /\ isDirectory(<<outputPath>>)
         sources ==
           IF individual
           THEN [i \in 1..documentCount |->
                   [path |-> [dir |-> <<outputPath>>,
                              file |-> renderedFiles("swift", ".swift")[i].fileName],
                    output |-> renderedFiles("swift", ".swift")[i].content]]
           ELSE << [path |-> outputFile, output |-> rendered("swift", <<"output">>)] >>
         ids ==
           IF options.generateOperationIds
           THEN << [path |-> operationIdsFile,
                    output |-> rendered("operationIds", <<"map">>)] >>
           ELSE <<>>
     IN  /\ files' = writeAll(files, sources \o ids)
         /\ finish(writtenFiles + Cardinality(DOMAIN writeAll(NoFiles, sources))
                     + Len(ids))
  /\ UNCHANGED <<arguments, error, dirs, context, generator, history>>

\* Every other target: one rendering, written to outputPath.  Writing to a
\* path that is a directory throws.
WriteLegacy ==
  /\ pc = "legacy"
  /\ IF isDirectory(<<outputPath>>)
     THEN /\ pc' = "failed"
          /\ error' = "EISDIR"
          /\ UNCHANGED <<files, writtenFiles, returned>>
     ELSE /\ files' = writeAll(files,
                               << [path |-> outputFile,
                                   output |-> rendered(target, <<"output">>)] >>)
          /\ finish(writtenFiles + 1)
          /\ error' = error
  /\ UNCHANGED <<arguments, dirs, context, generator, history>>

\* The same call of generate once more, over the file system the first run
\* left behind.
MaxRerunNodes == 2

Rerun ==
  /\ pc \in {"done", "failed"}
  /\ runs = 1
  /\ firstRun' = [error |-> error, returned |-> returned, context |-> context,
                  generatedFiles |-> generatedFiles, common |-> common, files |-> files]
  /\ runs' = 2
  /\ pc' = "load"
  /\ error' = NoError
  /\ returned' = NoResult
  /\ writtenFiles' = 0
  /\ context' = NoContext
  /\ UNCHANGED <<arguments, dirs, files, generator, command>>

Emit ==
  \/ NewGenerator \/ BeginOperation \/ ScalarField \/ CompositeField \/ PopField
  \/ ReturnProperties \/ SingleVariantField \/ DeclareFieldInterface
  \/ PushFieldVariant \/ DeclareFieldVariant \/ DeclareFieldUnion
  \/ DeclareOperation \/ PushVariables \/ PopVariables \/ EmitOperationFile
  \/ BeginFragment \/ DeclareFragmentInterface \/ PushFragmentVariant
  \/ DeclareFragmentVariant \/ DeclareFragmentUnion \/ EmitFragmentFile
  \/ FinishSource

Next ==
  \/ LoadDocuments \/ ValidateDocument \/ MakeOutputDirectory
  \/ CompileIR \/ CompileLegacyIR
  \/ Emit
  \/ GenerateFlowSource
  \/ WriteNextToSources \/ WriteToDirectory \/ WriteSingleFile
  \/ WriteSwift \/ WriteLegacy

Spec == Init /\ [][Next]_vars

InitRerun ==
  \/ InitSmall
  \/ /\ document \in { QueryOver(body) :
                         body \in UNION { SelectionSetsOfSize(n) : n \in 1..MaxRerunNodes } }
     /\ target \in TypescriptTargets
     /\ outputPath \in OutputPaths
     /\ nextToSources \in BOOLEAN
     /\ options = DefaultOptions
     /\ dirs = {}
     /\ Started

SpecRerun == InitRerun /\ [][Next \/ Rerun]_vars

(***************************************************************************)
(* The codegen:generate command: target inference, the task list, watch    *)
(* mode.  generate is synchronous, so while a call of it is under way      *)
(* (pc is not "idle") nothing else of the command runs.                    *)
(***************************************************************************)
\* Runs of the task list: the initial one and those started by the watcher.
MaxRuns == 3

Runs == 1..MaxRuns

SupportedTargets ==
  {"json", "swift", "typescript", "flow", "scala", "typescript-legacy", "flow-legacy"}

\* args.output.split(".").reverse()[0]
RECURSIVE lastSegment(_)
lastSegment(path) ==
  IF path = <<>> THEN <<>>
  ELSE IF "." \in Range(Tail(path)) THEN lastSegment(Tail(path))
  ELSE IF Head(path) = "." THEN Tail(path)
  ELSE path

\* The switch on the extension: `case "ts" || "tsx"` is `case "ts"` and
\* `case "js" || "jsx"` is `case "js"`.
targetOfExtension(extension) ==
  CASE extension = <<"json">> -> "json"
    [] extension = <<"swift">> -> "swift"
    [] extension = <<"ts">> -> "typescript"
    [] extension = <<"js">> -> "flow"
    [] extension = <<"scala">> -> "scala"
    [] OTHER -> ""

\* The target the command settles on, or the error it ends with.
inferTarget(flagTarget, output) ==
  IF flagTarget # ""
  THEN IF flagTarget \in SupportedTargets
       THEN [target |-> flagTarget, error |-> NoError]
       ELSE [target |-> "", error |-> "Unsupported target"]
  ELSE IF output # <<>>
  THEN IF targetOfExtension(lastSegment(output)) # ""
       THEN [target |-> targetOfExtension(lastSegment(output)), error |-> NoError]
       ELSE [target |-> "", error |-> "Could not infer target from output file type"]
  ELSE [target |-> "", error |-> NoError]

\* The checks on the output argument that follow the inference.
outputError(inferredTarget) ==
  IF args.output = <<>> /\ inferredTarget \notin {"typescript", "flow"}
  THEN "The output path must be specified"
  ELSE IF /\ ~flags.outputFlat
          /\ inferredTarget \in {"typescript", "flow"}
          /\ "/" \in Range(args.output)
  THEN "output must be empty or a single directory name"
  ELSE NoError

NoTaskContext == [queryPaths |-> FALSE, schema |-> "none"]

\* What a run that has not called generate has to show.
NoOutcome ==
  [document |-> <<>>, error |-> NoError, returned |-> NoResult, context |-> NoContext,
   generatedFiles |-> <<>>, common |-> <<>>]

\* The command line has been parsed into flags and args.
ParseArguments ==
  /\ cmd = "parse"
  /\ pc = "idle"
  /\ LET inferred == inferTarget(flags.target, args.output)
         failure == IF inferred.error # NoError THEN inferred.error
                    ELSE outputError(inferred.target)
     IN  IF failure # NoError
         THEN /\ cmd' = "failed"
              /\ cmdError' = failure
              /\ UNCHANGED <<target, task>>
         ELSE /\ cmd' = "tasks"
              /\ cmdError' = cmdError
              /\ target' = inferred.target
              /\ task' = [task EXCEPT ![1] = "scan"]
  /\ UNCHANGED <<document, outputPath, nextToSources, options, pc, error, returned,
                 writtenFiles, dirs, files, context, generator, runs, firstRun, flags,
                 args, isTTY, watcherOpen, keyPressed, changes, ctx, results>>

\* What a step of a run's task list leaves alone.
taskStep ==
  UNCHANGED <<arguments, pc, error, returned, writtenFiles, dirs, files, context,
              generator, runs, firstRun, flags, args, isTTY, cmd, cmdError, watcherOpen,
              keyPressed, changes, results>>

\* "Scanning for GraphQL queries"
ScanQueries(r) ==
  /\ task[r] = "scan"
  /\ pc = "idle"
  /\ ctx' = [ctx EXCEPT ![r].queryPaths = TRUE]
  /\ task' = [task EXCEPT ![r] = "loadSchema"]
  /\ taskStep

\* "Loading GraphQL schema": the introspection result.
LoadSchema(r) ==
  /\ task[r] = "loadSchema"
  /\ pc = "idle"
  /\ ctx' = [ctx EXCEPT ![r].schema = "introspection"]
  /\ task' = [task EXCEPT ![r] = "parseSchema"]
  /\ taskStep

\* "Parsing GraphQL schema"
ParseSchema(r) ==
  /\ task[r] = "parseSchema"
  /\ pc = "idle"
  /\ ctx' = [ctx EXCEPT ![r].schema =
               IF @ = "introspection" THEN "GraphQLSchema" ELSE @]
  /\ task' = [task EXCEPT ![r] = "clientSchema"]
  /\ taskStep

\* "Loading client-side GraphQL schema": skipped, no path is given.
LoadClientSchema(r) ==
  /\ task[r] = "clientSchema"
  /\ pc = "idle"
  /\ task' = [task EXCEPT ![r] = "generate"]
  /\ ctx' = ctx
  /\ taskStep

\* The options object built for one call of generate.
generateOptions ==
  [merge |-> flags.mergeInFieldsFromFragmentSpreads,
   addTypename |-> flags.addTypename,
   generateOperationIds |-> flags.operationIdsPath]

\* "Generating query files": the call of generate.
CallGenerate(r) ==
  /\ task[r] = "generate"
  /\ pc = "idle"
  /\ ctx[r].queryPaths /\ ctx[r].schema = "GraphQLSchema"
  /\ task' = [task EXCEPT ![r] = "generating"]
  /\ outputPath' = IF args.output # <<>> THEN args.output ELSE <<"__generated__">>
  /\ nextToSources' = ~flags.outputFlat
  /\ options' = generateOptions
  /\ pc' = "load"
  /\ error' = NoError
  /\ returned' = NoResult
  /\ writtenFiles' = 0
  /\ context' = NoContext
  /\ UNCHANGED <<document, target, dirs, files, generator, runs, firstRun, flags, args,
                 isTTY, cmd, cmdError, watcherOpen, keyPressed, changes, ctx, results>>

\* What the call of generate that is ending has to show: the documents it
\* read and its error, or the count it returns, its compiled context and the
\* files it generated.
outcome ==
  [document |-> document, error |-> error, returned |-> returned,
   context |-> IF pc = "done" THEN context ELSE NoContext,
   generatedFiles |-> IF pc = "done" THEN generatedFiles ELSE <<>>,
   common |-> IF pc = "done" THEN common ELSE <<>>]

\* generate has returned or thrown: the task, and with it the run, ends.
ReturnFromGenerate(r) ==
  /\ task[r] = "generating"
  /\ pc \in {"done", "failed"}
  /\ task' = [task EXCEPT ![r] = IF pc = "done" THEN "completed" ELSE "failed"]
  /\ results' = [results EXCEPT ![r] = outcome]
  /\ pc' = "idle"
  /\ UNCHANGED <<arguments, error, returned, writtenFiles, dirs, files, context,
                 generator, runs, firstRun, flags, args, isTTY, cmd, cmdError,
                 watcherOpen, keyPressed, changes, ctx>>

\* The command lines tried: every way of naming a target, and watch mode.
CommandFlags ==
  { [NoFlags EXCEPT !.target = t] :
      t \in {"", "typescript", "flow", "swift", "json", "ts", "kotlin"} }
  \cup { [NoFlags EXCEPT !.outputFlat = TRUE, !.target = t] : t \in {"", "typescript"} }
  \cup { [NoFlags EXCEPT !.watch = TRUE, !.addTypename = TRUE,
                         !.mergeInFieldsFromFragmentSpreads = TRUE] }

CommandOutputs ==
  { <<>>, <<"__generated__">>, <<"src", "/", "types">>,
    <<"out", ".", "json">>, <<"out", ".", "swift">>, <<"out", ".", "scala">>,
    <<"out", ".", "ts">>, <<"out", ".", "tsx">>, <<"out", ".", "js">>,
    <<"out", ".", "jsx">>, <<"out", ".", "d", ".", "ts">>, <<"out", ".", "graphql">> }

\* The documents watched: one that generates a union type, one that fails
\* validation.
WatchDocuments ==
  { QueryOver(<<FieldNode("name", "", <<>>),
                TypeConditionNode("Cat", <<FieldNode("id", "", <<>>)>>)>>),
    [operations |-> <<AnimalQuery("Foo", <<>>, <<FieldNode("bogus", "", <<>>)>>)>>,
     fragments |-> <<>>] }

CommandDocuments ==
  { [operations |-> <<AnimalQuery("Foo", <<"x">>,
                        <<SpreadNode("G"),
                          TypeConditionNode("Cat",
                            <<FieldNode("friend", "", <<SpreadNode("F")>>)>>)>>)>>,
     fragments |-> <<FragmentF, FragmentG>>] }
    \cup WatchDocuments

\* The rejection of the initial run ends the command, watch mode or not.
afterInitialRunUncaught(watch, failed) ==
  IF failed THEN "failed" ELSE IF watch THEN "watching" ELSE "returned"

\* tasks.run() has settled.  Outside watch mode its rejection is the
\* command's; in watch mode it is caught and the watcher comes next.
afterInitialRun(watch, failed) ==
  IF watch THEN "watching" ELSE IF failed THEN "failed" ELSE "returned"

FinishInitialRun ==
  /\ cmd = "tasks"
  /\ pc = "idle"
  /\ task[1] \in {"completed", "failed"}
  /\ cmd' = afterInitialRun(flags.watch, task[1] = "failed")
  /\ cmdError' = IF cmd' = "failed" THEN results[1].error ELSE cmdError
  /\ UNCHANGED <<arguments, pc, error, returned, writtenFiles, dirs, files, context,
                 generator, runs, firstRun, flags, args, isTTY, watcherOpen, keyPressed,
                 changes, task, ctx, results>>

\* new Gaze(...), watcher.on("all", ...), waitForKey(): without a terminal
\* on stdin setRawMode is missing and waitForKey rejects.
StartWatching ==
  /\ cmd = "watching"
  /\ pc = "idle"
  /\ watcherOpen' = TRUE
  /\ cmd' = IF isTTY THEN "waiting" ELSE "failed"
  /\ cmdError' = IF isTTY THEN cmdError ELSE "TypeError"
  /\ UNCHANGED <<arguments, pc, error, returned, writtenFiles, dirs, files, context,
                 generator, runs, firstRun, flags, args, isTTY, keyPressed, changes, task,
                 ctx, results>>

\* The watcher's "all" event, after a change of the query files:
\* tasks.run() starts another run.
ChangeDetected ==
  /\ cmd = "waiting"
  /\ watcherOpen
  /\ pc = "idle"
  /\ changes + 1 < MaxRuns
  /\ changes' = changes + 1
  /\ document' \in WatchDocuments
  /\ task' = [task EXCEPT ![changes + 2] = "scan"]
  /\ UNCHANGED <<target, outputPath, nextToSources, options, pc, error, returned, writtenFiles, dirs, files, context,
                 generator, runs, firstRun, flags, args, isTTY, cmd, cmdError, watcherOpen,
                 keyPressed, ctx, results>>

\* A key is pressed: waitForKey resolves, the watcher is closed, run returns.
KeyPressed ==
  /\ cmd = "waiting"
  /\ pc = "idle"
  /\ keyPressed' = TRUE
  /\ watcherOpen' = FALSE
  /\ cmd' = "returned"
  /\ UNCHANGED <<arguments, pc, error, returned, writtenFiles, dirs, files, context,
                 generator, runs, firstRun, flags, args, isTTY, cmdError, changes, task,
                 ctx, results>>

Tasks ==
  \E r \in Runs :
    \/ ScanQueries(r) \/ LoadSchema(r) \/ ParseSchema(r) \/ LoadClientSchema(r)
    \/ CallGenerate(r) \/ ReturnFromGenerate(r)

InitCommand ==
  /\ document \in CommandDocuments
  /\ flags \in CommandFlags
  /\ flags.watch => document \in WatchDocuments
  /\ args \in [output : CommandOutputs]
  /\ isTTY \in BOOLEAN
  /\ flags.watch => args.output \in { <<>>, <<"out", ".", "ts">> }
  /\ cmd = "parse"
  /\ cmdError = NoError
  /\ watcherOpen = FALSE
  /\ keyPressed = FALSE
  /\ changes = 0
  /\ task = [r \in Runs |-> "none"]
  /\ ctx = [r \in Runs |-> NoTaskContext]
  /\ results = [r \in Runs |-> NoOutcome]
  /\ target = ""
  /\ outputPath = <<>>
  /\ nextToSources = FALSE
  /\ options = DefaultOptions
  /\ dirs = {}
  /\ pc = "idle"
  /\ error = NoError
  /\ returned = NoResult
  /\ writtenFiles = 0
  /\ files = NoFiles
  /\ context = NoContext
  /\ scopeStack = <<>>
  /\ printer = <<>>
  /\ generatedFiles = <<>>
  /\ common = <<>>
  /\ docIndex = 1
  /\ stack = <<>>
  /\ ret = <<>>
  /\ runs = 1
  /\ firstRun = NoRun

NextCommand ==
  \/ ParseArguments
  \/ Tasks
  \/ FinishInitialRun \/ StartWatching \/ ChangeDetected \/ KeyPressed
  \/ Next

SpecCommand == InitCommand /\ [][NextCommand]_vars

\* A call of generate is under way.
busy == pc \notin {"idle", "done", "failed"}

\* The event loop goes on with whatever of the command and its runs can go
\* on, and generate, which awaits nothing, runs on until it returns or
\* throws; file changes and the key are up to the user.
SpecWatch ==
  /\ SpecCommand
  /\ WF_vars(ParseArguments \/ Tasks \/ FinishInitialRun \/ StartWatching)
  /\ WF_pc(busy /\ pc' \in {"done", "failed"})

(***************************************************************************)
(* Properties.                                                            *)
(***************************************************************************)
\* The activations that hold the variants computed for a selection set.
variantFrames ==
  { i \in DOMAIN stack :
      stack[i].fn \in {"interfacesForOperation", "interfacesForFragment",
                       "handleFieldSelectionSetValue"} }

propertyFrames == { i \in DOMAIN stack : stack[i].fn = "getPropertiesForVariant" }

typesOf(variants) == UNION { Range(variants[k].possibleTypes) : k \in DOMAIN variants }

\* C1 (exhaustiveness): for every selection set whose variants the generator
\* has computed, at any nesting depth, the union of the possible types of
\* the variants is exactly the possible types of the selection set.
VariantsExhaustive ==
  \A i \in variantFrames :
    typesOf(stack[i].variants) = Range(stack[i].selectionSet.possibleTypes)

\* A polymorphic field inside a variant of a polymorphic field, the outer
\* one with a fragment spread among its selections.
VariantsExhaustiveWitness ==
  \E i, j \in variantFrames :
    /\ i < j
    /\ Len(stack[i].variants) >= 2
    /\ Len(stack[j].variants) >= 2
    /\ stack[i].fn = "handleFieldSelectionSetValue"
    /\ \E k \in DOMAIN stack[j].selectionSet.selections :
         stack[j].selectionSet.selections[k].kind = "FragmentSpread"

\* C2 (mutual exclusivity): the variants of a selection set have pairwise
\* disjoint, non-empty possible types, so the first possible types of two
\* sibling variants differ.
VariantsExclusive ==
  \A i \in variantFrames :
    LET variants == stack[i].variants
    IN  /\ \A a \in DOMAIN variants : variants[a].possibleTypes # <<>>
        /\ \A a, b \in DOMAIN variants :
             a # b =>
               /\ Range(variants[a].possibleTypes) \cap Range(variants[b].possibleTypes)
                    = {}
               /\ Head(variants[a].possibleTypes) # Head(variants[b].possibleTypes)

\* The second of three sibling variants is being emitted under its first type.
VariantsExclusiveWitness ==
  \E i \in variantFrames :
    /\ Len(stack[i].variants) = 3
    /\ stack[i].phase = "variant"
    /\ stack[i].index = 2
    /\ Last(stack[i].entry \o <<Last(scopeStack)>>)
         = Spell(Head(stack[i].variants[2].possibleTypes))

sameVariant(variants, t, u) ==
  \E k \in DOMAIN variants :
    t \in Range(variants[k].possibleTypes) /\ u \in Range(variants[k].possibleTypes)

onlyFields(selectionSet) ==
  \A k \in DOMAIN selectionSet.selections : selectionSet.selections[k].kind = "Field"

\* C3 (grouping rule): two possible types of a selection set are in the same
\* variant exactly when the same selections apply to them; a selection set
\* of direct fields only has one variant with all possible types.
VariantsGroupBySelections ==
  \A i \in variantFrames :
    LET selectionSet == stack[i].selectionSet
        variants == stack[i].variants
    IN  /\ \A t, u \in Range(selectionSet.possibleTypes) :
             sameVariant(variants, t, u)
               <=> typeKey(selectionSet, t, context.options.merge)
                     = typeKey(selectionSet, u, context.options.merge)
        /\ onlyFields(selectionSet) =>
             /\ Len(variants) = 1
             /\ variants[1].possibleTypes = selectionSet.possibleTypes

\* Two types grouped together next to a type on its own, told apart by what
\* a fragment spread on the type of the selection set brings in.
VariantsGroupBySelectionsWitness ==
  \E i \in variantFrames :
    /\ stack[i].fn = "handleFieldSelectionSetValue"
    /\ Len(stack[i].variants) = 2
    /\ \E k \in DOMAIN stack[i].variants : Len(stack[i].variants[k].possibleTypes) = 2
    /\ \A k \in DOMAIN stack[i].selectionSet.selections :
         /\ stack[i].selectionSet.selections[k].kind = "FragmentSpread"
         /\ stack[i].selectionSet.selections[k].type = stack[i].selectionSet.parentType

beforeCompilation == pc \in {"load", "validate", "mkdir", "compile"}

\* A fragment spread somewhere in `sels` names a fragment whose type has no
\* possible type in common with the selection set the spread stands in.
RECURSIVE spreadsImpossibly(_, _, _)
spreadsImpossibly(sels, possibleTypes, fragments) ==
  \E k \in DOMAIN sels :
    LET s == sels[k]
    IN  CASE s.kind = "Field" ->
               spreadsImpossibly(s.sels, PossibleTypesOf(FieldType(s.name)), fragments)
          [] s.kind = "TypeCondition" ->
               /\ s.type \in SchemaTypes
               /\ spreadsImpossibly(s.sels, Narrow(possibleTypes, s.type), fragments)
          [] OTHER ->
               /\ hasFragment(fragments, s.name)
               /\ fragmentNamed(fragments, s.name).type \in SchemaTypes
               /\ Range(PossibleTypesOf(fragmentNamed(fragments, s.name).type))
                    \cap Range(possibleTypes) = {}

documentSpreadsImpossibly ==
  \/ \E i \in DOMAIN document.operations :
       spreadsImpossibly(document.operations[i].sels, PossibleTypesOf("Query"),
                         document.fragments)
  \/ \E i \in DOMAIN document.fragments :
       /\ document.fragments[i].type \in SchemaTypes
       /\ spreadsImpossibly(document.fragments[i].sels,
                            PossibleTypesOf(document.fragments[i].type),
                            document.fragments)

\* C4: a document with a fragment spread whose type shares no possible type
\* with the enclosing selection set never gets past compilation: the run
\* fails with ImpossibleFragmentSpread, nothing is emitted for it, and no
\* variant with an empty list of possible types is ever emitted.
ImpossibleSpreadRejected ==
  /\ (documentSpreadsImpossibly /\ ~beforeCompilation) =>
       /\ pc = "failed"
       /\ error = "ImpossibleFragmentSpread"
       /\ context = NoContext
       /\ printer = <<>>
  /\ \A i \in propertyFrames : stack[i].variant.possibleTypes # <<>>

\* The run of a document with an impossible spread has failed at compilation.
ImpossibleSpreadRejectedWitness ==
  /\ documentSpreadsImpossibly
  /\ pc = "failed"
  /\ error = "ImpossibleFragmentSpread"
  /\ document \in GeneratedDocuments

\* The output keys, each once, in the order of their first occurrence.
RECURSIVE firstSeen(_)
firstSeen(keys) ==
  IF keys = <<>> THEN <<>>
  ELSE LET before == firstSeen(Front(keys))
       IN  IF Last(keys) \in Range(before) THEN before ELSE Append(before, Last(keys))

keysOf(fields) == [k \in DOMAIN fields |-> responseKey(fields[k])]

\* The field selections that apply to a type of a variant, duplicates included.
reachedFields(variant, type) ==
  applicableFields(variant.selections, variant.parentType, type, context.options.merge)

\* C5: in every activation of getPropertiesForVariant the merged field list
\* has each output key once, in the order the keys are first seen when the
\* selections applicable to the variant are walked, whichever type of the
\* variant the keys are collected for, and the properties collected so far
\* are one per merged field, in that order, named by the output key.
MergedFieldsOncePerKey ==
  \A i \in propertyFrames :
    LET frame == stack[i]
    IN  /\ keysOf(frame.fields)
             = firstSeen(keysOf(reachedFields(frame.variant,
                                              Head(frame.variant.possibleTypes))))
        /\ \A t \in Range(frame.variant.possibleTypes) :
             Range(keysOf(frame.fields)) = Range(keysOf(reachedFields(frame.variant, t)))
        /\ \A a, b \in DOMAIN frame.fields :
             a # b => responseKey(frame.fields[a]) # responseKey(frame.fields[b])
        /\ Len(frame.collected) = frame.index - 1
        /\ \A k \in DOMAIN frame.collected :
             frame.collected[k].name = responseKey(frame.fields[k])

\* All properties of a variant are collected where a field was reached more
\* than once, through a fragment spread under a fragment spread among others.
MergedFieldsOncePerKeyWitness ==
  \E i \in propertyFrames :
    LET frame == stack[i]
        reached == reachedFields(frame.variant, Head(frame.variant.possibleTypes))
    IN  /\ frame.index > Len(frame.fields)
        /\ Len(frame.fields) >= 3
        /\ Len(reached) > Len(frame.fields) + 1
        /\ \E k \in DOMAIN frame.variant.selections :
             frame.variant.selections[k].kind = "FragmentSpread"

\* Two selections applicable to one type of the selection set, or of a
\* selection set nested in it, share an output key and name different fields.
RECURSIVE conflictsUnder(_)
conflictsUnder(selectionSet) ==
  \E t \in Range(selectionSet.possibleTypes) :
    LET reached == applicableFields(selectionSet.selections, selectionSet.parentType, t,
                                    options.merge)
    IN  \/ \E a, b \in DOMAIN reached :
             /\ responseKey(reached[a]) = responseKey(reached[b])
             /\ reached[a].name # reached[b].name
        \/ \E a \in DOMAIN reached :
             /\ reached[a].selectionSet # NoSelectionSet
             /\ conflictsUnder(reached[a].selectionSet)

\* The document resolves against the schema and two of its selections conflict.
documentConflicts ==
  /\ loadAndMergeQueryDocuments(document).error = NoError
  /\ validateQueryDocument(document) = NoError
  /\ resolutionError(document) = NoError
  /\ LET compiled == compiledContext(document, options)
     IN  \/ \E i \in DOMAIN compiled.operations :
              conflictsUnder(compiled.operations[i].selectionSet)
         \/ \E i \in DOMAIN compiled.fragments :
              conflictsUnder(compiled.fragments[i].selectionSet)

\* C6: a document in which two selections applicable to the same variant
\* share an output key and name different schema fields fails compilation
\* with FieldMergeConflict, and no variant is ever emitted with one of two
\* such fields picked for the key.
ConflictsRejected ==
  /\ (documentConflicts /\ ~beforeCompilation) =>
       /\ pc = "failed"
       /\ error = "FieldMergeConflict"
       /\ context = NoContext
  /\ \A i \in propertyFrames :
       \A t \in Range(stack[i].variant.possibleTypes) :
         ~fieldsConflict(reachedFields(stack[i].variant, t))

\* A conflict between a field and an aliased field reached through a type
\* condition has failed the run.
ConflictsRejectedWitness ==
  /\ documentConflicts
  /\ pc = "failed"
  /\ error = "FieldMergeConflict"
  /\ \E k \in DOMAIN document.operations[1].sels[1].sels :
       document.operations[1].sels[1].sels[k].kind = "TypeCondition"

\* The segments an activation has pushed and not yet popped.
pushedBy(frame) ==
  CASE frame.fn = "interfacesForOperation" ->
         IF frame.phase = "properties"
         THEN <<Spell(context.operations[docIndex].operationName)>>
         ELSE IF frame.phase = "variablesPushed"
         THEN <<Spell(context.operations[docIndex].operationName) \o <<"Variables">>>>
         ELSE <<>>
    [] frame.fn = "interfacesForFragment" ->
         IF frame.phase \in {"single", "multi"}
         THEN <<Spell(fragmentAt(docIndex).fragmentName)>>
         ELSE IF frame.phase = "variant"
         THEN <<Spell(fragmentAt(docIndex).fragmentName),
                Spell(Head(frame.variants[frame.index].possibleTypes))>>
         ELSE <<>>
    [] frame.fn = "getPropertiesForVariant" ->
         IF frame.phase = "pushed"
         THEN <<Spell(responseKey(frame.fields[frame.index]))>>
         ELSE <<>>
    [] OTHER ->
         IF frame.phase = "variant"
         THEN <<Spell(Head(frame.variants[frame.index].possibleTypes))>>
         ELSE <<>>

\* C7: the naming scope is strictly nested.  Each activation runs on the
\* scope it was entered with plus the segments it has itself pushed and not
\* yet popped, so getPropertiesForVariant and handleFieldSelectionSetValue
\* return on the scope they were entered with, and the scope is empty
\* outside interfacesForOperation and interfacesForFragment.
ScopeStackNested ==
  /\ \A i \in DOMAIN stack :
       IF i < Len(stack)
       THEN stack[i + 1].entry = stack[i].entry \o pushedBy(stack[i])
       ELSE scopeStack = stack[i].entry \o pushedBy(stack[i])
  /\ stack # <<>> => stack[1].entry = <<>>
  /\ stack = <<>> => scopeStack = <<>>

\* A scalar field is pushed six segments deep, under two variants.
ScopeStackNestedWitness ==
  /\ Len(scopeStack) >= 6
  /\ Cardinality({ i \in variantFrames : stack[i].phase = "variant" }) >= 2
  /\ top.fn = "getPropertiesForVariant"
  /\ top.phase = "pushed"

\* The names of the interfaces and union aliases declared in the generated files.
declarations ==
  UNION { { <<i, k>> : k \in { n \in DOMAIN generatedFiles[i].content :
                                 generatedFiles[i].content[n].kind
                                   \in {"interface", "union"} } } :
          i \in DOMAIN generatedFiles }

declaredName(d) == generatedFiles[d[1]].content[d[2]].name

\* C8: once generateSource is through, no two declarations generated for the
\* document set have the same identifier.
GeneratedNamesUnique ==
  (pc \in {"write", "done"} /\ target \in TypescriptTargets) =>
    \A d, e \in declarations : d # e => declaredName(d) # declaredName(e)

Taxonomy ==
  {"UnknownFragment", "UnknownType", "InvalidTypeCondition", "ImpossibleFragmentSpread",
   "FieldMergeConflict", "DuplicateFragmentName"}

\* What loading, validation and compilation make of the document.
documentError ==
  IF loadAndMergeQueryDocuments(document).error # NoError
  THEN loadAndMergeQueryDocuments(document).error
  ELSE IF validateQueryDocument(document) # NoError
  THEN validateQueryDocument(document)
  ELSE compileToIR(document, options).error

\* C9: a document that fails loading, validation or compilation makes the
\* run fail with that error; a failed run has stopped, holds no compiled
\* context, has generated and written no file and has returned no count.
FailFast ==
  /\ (documentError # NoError /\ ~beforeCompilation) =>
       pc = "failed" /\ error = documentError
  /\ (pc = "failed" /\ error \in Taxonomy \cup {"ValidationError"}) =>
       /\ context = NoContext
       /\ generatedFiles = <<>>
       /\ printer = <<>>
       /\ files = NoFiles
       /\ writtenFiles = 0
       /\ returned = NoResult
       /\ ~ENABLED Next

\* A compilation error under a target that needs no generated-source walk,
\* with the output directory there already.
FailFastWitness ==
  /\ pc = "failed"
  /\ error \in Taxonomy \ {"DuplicateFragmentName"}
  /\ target \notin TypescriptTargets
  /\ dirs # {}

spelled(types) == { Spell(types[k]) : k \in DOMAIN types }

\* The variants next to the one whose properties activation i collects.
siblingsOf(i) ==
  IF i > 1 /\ (i - 1) \in variantFrames /\ Len(stack[i - 1].variants) > 1
  THEN { stack[i - 1].variants[k] :
           k \in DOMAIN stack[i - 1].variants \ {stack[i - 1].index} }
  ELSE {}

\* C11: with addTypename, the merged field list of every variant starts with
\* __typename, and the property emitted for it is typed by the literal names
\* of the possible types of that variant, none of them a type of a sibling
\* variant.
TypenameFirst ==
  context.options.addTypename =>
    \A i \in propertyFrames :
      LET frame == stack[i]
      IN  /\ frame.fields # <<>>
          /\ frame.fields[1].name = "__typename"
          /\ \A k \in DOMAIN frame.fields :
               k > 1 => responseKey(frame.fields[k]) # "__typename"
          /\ frame.collected # <<>> =>
               /\ frame.collected[1].name = "__typename"
               /\ frame.collected[1].type.kind = "literals"
               /\ Range(frame.collected[1].type.names)
                    = spelled(frame.variant.possibleTypes)
               /\ \A sibling \in siblingsOf(i) :
                    Range(frame.collected[1].type.names)
                      \cap spelled(sibling.possibleTypes) = {}

\* The __typename property of a variant of two types, next to a sibling
\* variant, under a field of an abstract type.
TypenameFirstWitness ==
  /\ context.options.addTypename
  /\ target \in TypescriptTargets
  /\ \E i \in propertyFrames :
       /\ siblingsOf(i) # {}
       /\ Len(stack[i].variant.possibleTypes) = 2
       /\ Len(stack[i].collected) >= 2
       /\ Len(stack[i].collected[1].type.names) = 2

finished(r) == task[r] \in {"completed", "failed"}

inFlight(r) == task[r] \notin {"none", "completed", "failed"}

statedTarget(extension) ==
  CASE extension = <<"json">> -> "json"
    [] extension = <<"swift">> -> "swift"
    [] extension \in { <<"ts">>, <<"tsx">> } -> "typescript"
    [] extension \in { <<"js">>, <<"jsx">> } -> "flow"
    [] extension = <<"scala">> -> "scala"
    [] OTHER -> ""

noTaskRan == \A r \in Runs : task[r] = "none"

\* C13: once the command line is parsed, a --target outside the supported
\* names has ended the command with 'Unsupported target' and no task has
\* run; without --target an output ending in json, swift, ts or tsx, js or
\* jsx, scala has given the target json, swift, typescript, flow, scala, and
\* any other output has ended the command with 'Could not infer target from
\* output file type' and no task has run.
TargetInferred ==
  cmd \notin {"none", "parse"} =>
    IF flags.target # ""
    THEN IF flags.target \in SupportedTargets
         THEN cmdError # "Unsupported target"
                /\ (task[1] # "none" => target = flags.target)
         ELSE cmd = "failed" /\ cmdError = "Unsupported target" /\ noTaskRan
    ELSE IF args.output # <<>>
    THEN IF statedTarget(lastSegment(args.output)) # ""
         THEN /\ cmdError # "Could not infer target from output file type"
              /\ (cmd = "failed" /\ noTaskRan)
                   \/ target = statedTarget(lastSegment(args.output))
         ELSE /\ cmd = "failed"
              /\ cmdError = "Could not infer target from output file type"
              /\ noTaskRan
    ELSE TRUE

operationFrames == { i \in DOMAIN stack : stack[i].fn = "interfacesForOperation" }

\* The members of the interface declared under the operation's name.
operationMembers ==
  UNION { { printer[k].members[m].name : m \in DOMAIN printer[k].members } :
            k \in { k \in DOMAIN printer :
                      /\ printer[k].kind = "interface"
                      /\ printer[k].name
                           = Spell(context.operations[docIndex].operationName) } }

\* C14: the root selection set of every operation has exactly one variant,
\* which has all possible types of the root, so the interface that
\* interfacesForOperation declares from the first variant has a member for
\* every output key the root selection set reaches: no shape is dropped.
OperationHasOneVariant ==
  \A i \in operationFrames :
    LET frame == stack[i]
    IN  /\ Len(frame.variants) = 1
        /\ frame.variants[1].possibleTypes = frame.selectionSet.possibleTypes
        /\ frame.phase # "properties" =>
             \A t \in Range(frame.selectionSet.possibleTypes) :
               Range(keysOf(applicableFields(frame.selectionSet.selections,
                                             frame.selectionSet.parentType, t,
                                             context.options.merge)))
                 \subseteq operationMembers

\* The interface of an operation is declared whose root selection set has a
\* type condition or a fragment spread next to a field, with two output keys.
OperationHasOneVariantWitness ==
  \E i \in operationFrames :
    /\ stack[i].phase = "variables"
    /\ \E k \in DOMAIN stack[i].selectionSet.selections :
         stack[i].selectionSet.selections[k].kind # "Field"
    /\ \E k \in DOMAIN stack[i].selectionSet.selections :
         stack[i].selectionSet.selections[k].kind = "Field"
    /\ Cardinality(operationMembers) = 2

\* The identifiers that the properties of the interface at place k of a
\* file's content refer to.
referencesOf(content, k) ==
  UNION { Range(content[k].members[m].type.names) :
            m \in { m \in DOMAIN content[k].members :
                      content[k].members[m].type.kind = "ref" } }

declaredIn(content, kinds) ==
  { content[k].name : k \in { k \in DOMAIN content : content[k].kind \in kinds } }

\* C15: in every generated file each generated identifier that a property
\* refers to is the name of an interface or union alias of that file, and
\* each member of a union alias is the name of an interface of that file.
\* While a field with a selection set is generated, the identifier captured
\* on entry is the name of the current scope, the members collected for its
\* union are the names, declared already, of the interfaces of its variants
\* in order, and when the property is returned the declaration enqueued last
\* has exactly the identifier the property refers to.
IdentifiersResolve ==
  /\ \A i \in DOMAIN generatedFiles :
       LET content == generatedFiles[i].content
       IN  \A k \in DOMAIN content :
             /\ content[k].kind = "interface" =>
                  referencesOf(content, k) \subseteq declaredIn(content, {"interface", "union"})
             /\ content[k].kind = "union" =>
                  Range(content[k].members) \subseteq declaredIn(content, {"interface"})
  /\ \A i \in DOMAIN stack :
       stack[i].fn = "handleFieldSelectionSetValue" =>
         /\ stack[i].identifier = nameFromScopeStack(stack[i].entry)
         /\ \A k \in DOMAIN stack[i].collected :
              /\ stack[i].collected[k]
                   = nameFromScopeStack(
                       Append(stack[i].entry, Spell(stack[i].variants[k].possibleTypes[1])))
              /\ stack[i].collected[k] \in declaredIn(printer, {"interface"})
  /\ (running("getPropertiesForVariant") /\ top.phase = "pushed"
        /\ ret.type.kind = "ref") =>
       /\ Last(printer).kind \in {"interface", "union"}
       /\ ret.type.names = <<Last(printer).name>>
       /\ Last(printer).name = nameFromScopeStack(scopeStack)
       /\ Last(printer).kind = "union" =>
            /\ Len(Last(printer).members) > 1
            /\ Range(Last(printer).members) \subseteq declaredIn(printer, {"interface"})

\* A generated file in which a property of an interface that is itself
\* referred to refers to a union alias of two members.
IdentifiersResolveWitness ==
  \E i \in DOMAIN generatedFiles :
    LET content == generatedFiles[i].content
    IN  \E k, u, o \in DOMAIN content :
          /\ content[k].kind = "interface"
          /\ content[u].kind = "union"
          /\ content[u].name \in referencesOf(content, k)
          /\ Len(content[u].members) = 2
          /\ content[o].kind = "interface"
          /\ content[k].name \in referencesOf(content, o)

\* In watch mode: the command has failed only on its command line or for
\* want of a terminal, never on a run; the runs started are the initial one
\* and one for each change event, all of the latter after the initial run
\* ended; the watcher is open exactly from its creation to the key, and the
\* command has returned exactly when the key was pressed.
WatchSafety ==
  (flags.watch /\ cmd # "parse") =>
    /\ cmd = "failed" => (noTaskRan /\ cmdError # "TypeError")
                           \/ (~isTTY /\ cmdError = "TypeError" /\ finished(1))
    /\ ~noTaskRan => \A r \in Runs : task[r] # "none" <=> r <= changes + 1
    /\ changes > 0 => finished(1)
    /\ keyPressed <=> cmd = "returned"
    /\ cmd = "returned" => ~watcherOpen
    /\ cmd = "waiting" => watcherOpen /\ finished(1)
    /\ watcherOpen => cmd \in {"waiting", "failed"}
    /\ (cmd = "waiting" /\ pc = "idle" /\ changes + 1 < MaxRuns) => ENABLED ChangeDetected

\* C16: in watch mode a failing run does not end the command.  With a
\* terminal the command, once its command line is accepted, gets to wait for
\* the key whether the initial run succeeds or fails; every change event
\* after that starts a run, which runs to its end whatever became of the
\* other runs; the watcher is closed and the command returns only when a key
\* is pressed.
WatchGoesOn ==
  /\ []WatchSafety
  /\ (flags.watch /\ isTTY /\ cmd = "tasks") ~> (cmd = "waiting")
  /\ \A r \in Runs : (flags.watch /\ task[r] # "none") ~> finished(r)

\* The initial run and the run of the first change event failed, the run of
\* a second change event is in flight, and the command waits for the key.
WatchGoesOnWitness ==
  /\ flags.watch
  /\ cmd = "waiting"
  /\ watcherOpen
  /\ ~keyPressed
  /\ task[1] = "failed"
  /\ task[2] = "failed"
  /\ inFlight(3)

====
